---- MODULE Spec2Model ----
(***************************************************************************)
(* Model of accounts/models.py of django-proxy-user: the User record with  *)
(* its multi-valued `types` attribute, the role views (proxy models) and   *)
(* their managers, the one-to-one extra-profile tables, and the post_save  *)
(* handler that reconciles the extra-profile rows with `types`.            *)
(***************************************************************************)
EXTENDS Naturals, Integers, Sequences, FiniteSets, TLC

\* ------------------------------------------------------------------ bounds
\* Rows the user table may hold (primary keys 1..MaxUsers).
MaxUsers == 2
\* Manager/instance calls in one run of the application model.
MaxOps == 3
\* Longest list handed to normalize_types in the pure-function specification.
NormMaxLen == 4

VARIABLES
    userTbl,   \* accounts_user: pk -> row (NoRow when absent)
    moreTbl,   \* the five extra-profile tables: role -> pk -> number of rows
    obj,       \* in-memory model instances, one per slot
    nops,      \* calls made so far
    last,      \* what the latest call did
    nIn,       \* normalize_types specification: the argument
    nOut,      \* normalize_types(nIn)
    nOut2,     \* normalize_types(normalize_types(nIn))
    nStep,     \* normalize_types specification: calls made
    worker     \* concurrent saves: each worker's position inside its save()

vars == <<userTbl, moreTbl, obj, nops, last, nIn, nOut, nOut2, nStep, worker>>

\* ------------------------------------------------------------ Type registry
\* User.TypesChoices.choices, in declaration order: (code, label) pairs.
TypesChoices == << <<"TEACHER", "Teacher">>, <<"STUDENT", "Student">>, <<"GUARDIAN", "Guardian">>, <<"COMMITTEE", "Committee">>, <<"STAFF", "Staff">> >>

\* A code that is no member of TypesChoices.
Bogus == "BOGUS"

\* The code points of each code: Python orders str values by them.
CodePoints == [TEACHER |-> <<84, 69, 65, 67, 72, 69, 82>>, STUDENT |-> <<83, 84, 85, 68, 69, 78, 84>>, GUARDIAN |-> <<71, 85, 65, 82, 68, 73, 65, 78>>, COMMITTEE |-> <<67, 79, 77, 77, 73, 84, 84, 69, 69>>, STAFF |-> <<83, 84, 65, 70, 70>>, BOGUS |-> <<66, 79, 71, 85, 83>>]

RECURSIVE SeqLess(_, _)
\* Lexicographic order of two code-point sequences (str.__lt__).
SeqLess(a, b) ==
    IF b = <<>> THEN FALSE
    ELSE IF a = <<>> THEN TRUE
    ELSE IF Head(a) # Head(b) THEN Head(a) < Head(b)
    ELSE SeqLess(Tail(a), Tail(b))

StrLess(x, y) == SeqLess(CodePoints[x], CodePoints[y])

Range(s) == {s[i] : i \in DOMAIN s}

\* ------------------------------------------------------ values of `types`
\* A value an instance's `types` attribute can hold: a list, a set (its
\* members listed once in `items`), or anything else (None, a str, a tuple),
\* of which only the truth value matters to the code.
ListVal(s) == [kind |-> "list", items |-> s, truthy |-> Len(s) > 0]
SetVal(s) == [kind |-> "set", items |-> s, truthy |-> Len(s) > 0]
OtherVal(b) == [kind |-> "other", items |-> <<>>, truthy |-> b]

\* No types=... keyword in a manager call.
Omitted == [kind |-> "omitted", items |-> <<>>, truthy |-> FALSE]

RECURSIVE Insert(_, _)
\* One step of the insertion sort: x placed before the first greater item.
Insert(x, l) ==
    IF l = <<>> THEN <<x>>
    ELSE IF StrLess(x, Head(l)) THEN <<x>> \o l
    ELSE <<Head(l)>> \o Insert(x, Tail(l))

RECURSIVE SortedList(_)
SortedList(l) == IF l = <<>> THEN <<>> ELSE Insert(Head(l), SortedList(Tail(l)))

\* A mutation of list_sort: the list is left as it was.
list_sort_skipped(l) == l

\* list.sort() on a list of str: ascending by code points.
list_sort(l) == SortedList(l)

\* list(a_set): the members once each, in an order the hash table decides.
Enumerations(S) == {l \in [1..Cardinality(S) -> S] : Range(l) = S}

\* A mutation of valid_types_set: every code counts as recognized.
valid_types_set_any == {TypesChoices[i][1] : i \in DOMAIN TypesChoices} \cup {Bogus}

\* valid_types_set of normalize_types: the codes of TypesChoices.
valid_types_set == {TypesChoices[i][1] : i \in DOMAIN TypesChoices}

\* normalize_types(types): the lists the call can return (one per order in
\* which list(types_set_validated) enumerates the set before the sort).
normalize_types(types) ==
    LET asList == IF types.kind \notin {"list", "set"} THEN <<>> ELSE types.items
        types_set_validated == valid_types_set \cap Range(asList)
    IN  {list_sort(l) : l \in Enumerations(types_set_validated)}

\* ------------------------------------------------------------ the tables
Pks == 1..MaxUsers

\* No row of accounts_user under this primary key.
NoRow == [present |-> FALSE, username |-> "", types |-> <<>>, is_staff |-> FALSE, is_superuser |-> FALSE]

\* The row save() writes for an instance: its persisted fields.
RowOf(inst) == [present |-> TRUE, username |-> inst.username, types |-> inst.types.items, is_staff |-> inst.is_staff, is_superuser |-> inst.is_superuser]

EmptyMore == [r \in valid_types_set |-> [pk \in Pks |-> 0]]

\* The AutoField primary key the next INSERT gets.
NextPk(users) == Cardinality({pk \in Pks : users[pk].present}) + 1

\* username is unique=True: another row holds this username.
UsernameTaken(users, username) == \E pk \in Pks : users[pk].present /\ users[pk].username = username

\* ------------------------------------------------------------- instances
Slots == {"a", "b"}

\* The tracker's snapshot of `types`: none while the instance has no pk.
NoSnapshot == [has |-> FALSE, items |-> <<>>]
Snapshot(items) == [has |-> TRUE, items |-> items]

NoInstance == [cls |-> "none", pk |-> 0, username |-> "", types |-> ListVal(<<>>), prev |-> NoSnapshot, is_staff |-> FALSE, is_superuser |-> FALSE]

\* The class attribute `types` the role views other than Teacher declare.
ClassTypes == [Student |-> <<"STUDENT">>, Guardian |-> <<"GUARDIAN">>, Committee |-> <<"COMMITTEE">>, Staff |-> <<"STAFF">>]

\* The instance attribute `types` after Model.__init__: the keyword argument,
\* or the field's default list() when there is none. __init__ sets it on the
\* instance for every class, so the class attribute of a role view is
\* shadowed and never read.
InitTypes(cls, types) == IF types.kind = "omitted" THEN ListVal(<<>>) ELSE types

\* self.model(username=..., **extra_fields): an unsaved instance.
NewInstance(cls, username, types, st, su) == [cls |-> cls, pk |-> 0, username |-> username, types |-> InitTypes(cls, types), prev |-> NoSnapshot, is_staff |-> st, is_superuser |-> su]

\* The instance a queryset builds from a row; post_init snapshots `types`.
FromDb(cls, pk, row) == [cls |-> cls, pk |-> pk, username |-> row.username, types |-> ListVal(row.types), prev |-> Snapshot(row.types), is_staff |-> row.is_staff, is_superuser |-> row.is_superuser]

\* The managers, the model each one builds, and the role its queryset filters on.
Managers == {"UserManager", "TeacherManager", "StudentManager", "GuardianManager", "CommitteeManager", "StaffManager"}
ModelOf == [UserManager |-> "User", TeacherManager |-> "Teacher", StudentManager |-> "Student", GuardianManager |-> "Guardian", CommitteeManager |-> "Committee", StaffManager |-> "Staff"]
FilterOf == [UserManager |-> "", TeacherManager |-> "TEACHER", StudentManager |-> "STUDENT", GuardianManager |-> "GUARDIAN", CommitteeManager |-> "COMMITTEE", StaffManager |-> "STAFF"]

\* get_queryset(): the rows the manager's queryset holds.
get_queryset(mgr, users) == {pk \in Pks : users[pk].present /\ (FilterOf[mgr] = "" \/ FilterOf[mgr] \in Range(users[pk].types))}

\* ------------------------------------------------- extra-profile tables
\* A mutation of MoreCreate: user_id is not unique.
MoreCreate_not_unique(more, role, pk) == [err |-> "ok", more |-> [more EXCEPT ![role][pk] = @ + 1]]

\* <Role>More.objects.create(user=instance): the OneToOneField is unique.
MoreCreate(more, role, pk) ==
    IF more[role][pk] > 0
    THEN [err |-> "IntegrityError: user_id", more |-> more]
    ELSE [err |-> "ok", more |-> [more EXCEPT ![role][pk] = 1]]

\* A mutation of update_or_create: a plain create.
update_or_create_as_create(more, role, pk) == [err |-> MoreCreate(more, role, pk).err, more |-> MoreCreate(more, role, pk).more, inserted |-> MoreCreate(more, role, pk).err = "ok", updated |-> FALSE]

\* <Role>More.objects.update_or_create(user=instance): the row is fetched and
\* saved again when it exists, and created when it does not.
update_or_create(more, role, pk) ==
    IF more[role][pk] > 1
    THEN [err |-> "MultipleObjectsReturned", more |-> more, inserted |-> FALSE, updated |-> FALSE]
    ELSE IF more[role][pk] = 1
    THEN [err |-> "ok", more |-> more, inserted |-> FALSE, updated |-> TRUE]
    ELSE [err |-> MoreCreate(more, role, pk).err, more |-> MoreCreate(more, role, pk).more, inserted |-> MoreCreate(more, role, pk).err = "ok", updated |-> FALSE]

\* <Role>More.objects.get(user=instance) inside try/except DoesNotExist.
MoreGet(more, role, pk) == IF more[role][pk] > 1 THEN "MultipleObjectsReturned" ELSE "ok"

\* --------------------------------------------- the post_save reconciler
\* What a call did to the extra-profile tables.
NoEffect(more) == [err |-> "ok", more |-> more, inserted |-> {}, updated |-> {}, looked |-> {}]

RECURSIVE CreateEach(_, _, _, _)
\* The created branch's chain of `if <role> in instance.types: create(...)`,
\* in the order the source writes it; an exception ends the handler.
CreateEach(roles, types, pk, acc) ==
    IF roles = <<>> \/ acc.err # "ok" THEN acc
    ELSE IF Head(roles) \notin Range(types) THEN CreateEach(Tail(roles), types, pk, acc)
    ELSE LET c == MoreCreate(acc.more, Head(roles), pk)
         IN  CreateEach(Tail(roles), types, pk, [acc EXCEPT !.err = c.err, !.more = c.more, !.inserted = IF c.err = "ok" THEN @ \cup {Head(roles)} ELSE @])

RECURSIVE UpsertEach(_, _, _)
\* `for user_type in added_types_set`: update_or_create on the role's table
\* (the if/elif chain names the five roles and passes over any other code).
UpsertEach(added, pk, acc) ==
    IF added = {} \/ acc.err # "ok" THEN acc
    ELSE LET r == CHOOSE x \in added : TRUE
             u == IF r \in DOMAIN acc.more THEN update_or_create(acc.more, r, pk) ELSE [err |-> "ok", more |-> acc.more, inserted |-> FALSE, updated |-> FALSE]
         IN  UpsertEach(added \ {r}, pk, [acc EXCEPT !.err = u.err, !.more = u.more, !.inserted = IF u.inserted THEN @ \cup {r} ELSE @, !.updated = IF u.updated THEN @ \cup {r} ELSE @])

RECURSIVE LookupEach(_, _, _)
\* `for user_type in removed_types_set`: get() the row, DoesNotExist passed over.
LookupEach(removed, pk, acc) ==
    IF removed = {} \/ acc.err # "ok" THEN acc
    ELSE LET r == CHOOSE x \in removed : TRUE
         IN  LookupEach(removed \ {r}, pk, [acc EXCEPT !.err = IF r \in DOMAIN acc.more THEN MoreGet(acc.more, r, pk) ELSE "ok", !.looked = @ \cup {r}])

\* The roles the created branch tests, in source order.
CreatedBranchRoles == <<"TEACHER", "STUDENT", "GUARDIAN", "COMMITTEE", "STAFF">>

\* A mutation of the handler: the changed branch does nothing.
handler_without_changed_branch(instance, created, more) ==
    IF created /\ Len(instance.types.items) > 0
    THEN CreateEach(CreatedBranchRoles, instance.types.items, instance.pk, NoEffect(more))
    ELSE NoEffect(more)

\* A mutation of the handler: the rows of removed roles are deleted.
handler_deleting_removed(instance, created, more) ==
    IF created
    THEN CreateEach(CreatedBranchRoles, instance.types.items, instance.pk, NoEffect(more))
    ELSE LET removed == Range(instance.prev.items) \ Range(instance.types.items)
             upserted == UpsertEach(Range(instance.types.items) \ Range(instance.prev.items), instance.pk, NoEffect(more))
         IN  [upserted EXCEPT !.more = [r \in valid_types_set |-> IF r \in removed THEN [upserted.more[r] EXCEPT ![instance.pk] = 0] ELSE upserted.more[r]]]

\* A mutation of the handler: the created branch creates only the first role's row.
handler_first_role_only(instance, created, more) ==
    IF created /\ Len(instance.types.items) > 0
    THEN CreateEach(<<Head(instance.types.items)>>, instance.types.items, instance.pk, NoEffect(more))
    ELSE NoEffect(more)

\* post_save_user_types_handler(sender, instance, created): instance.types is
\* the list save() normalized; instance.prev is the tracker's snapshot.
post_save_user_types_handler(instance, created, more) ==
    IF created
    THEN IF Len(instance.types.items) > 0
         THEN CreateEach(CreatedBranchRoles, instance.types.items, instance.pk, NoEffect(more))
         ELSE NoEffect(more)
    ELSE IF (~instance.prev.has) \/ instance.prev.items # instance.types.items
    THEN LET previous_types_set == Range(instance.prev.items)
             current_types_set == Range(instance.types.items)
             removed_types_set == previous_types_set \ current_types_set
             added_types_set == current_types_set \ previous_types_set
         IN  LookupEach(removed_types_set, instance.pk, UpsertEach(added_types_set, instance.pk, NoEffect(more)))
    ELSE NoEffect(more)

\* Which branch of the handler ran.
HandlerBranch(instance, created) ==
    IF created THEN "created"
    ELSE IF (~instance.prev.has) \/ instance.prev.items # instance.types.items THEN "changed"
    ELSE "unchanged"

\* ------------------------------------------------------------------ save
\* What a call returns to the action that made it.
Outcome(err, users, more, inst, handler, branch, eff) == [err |-> err, users |-> users, more |-> more, inst |-> inst, handler |-> handler, branch |-> branch, inserted |-> eff.inserted, updated |-> eff.updated, looked |-> eff.looked, seen |-> inst.types]

\* A mutation of Receivers: the handler is connected for sender=User only.
Receivers_user_only == <<"User">>

\* The senders the handler is connected to, one @receiver decorator each.
Receivers == <<"User", "Teacher", "Student", "Guardian", "Committee", "Staff">>

\* post_save.send(sender=instance.__class__, ...): every connection whose
\* sender is the saving class calls the handler, in order of connection; an
\* exception of the handler ends the dispatch.
RECURSIVE post_save_send(_, _, _, _)
post_save_send(i, instance, created, acc) ==
    IF i > Len(Receivers) \/ acc.err # "ok" THEN acc
    ELSE IF Receivers[i] # instance.cls THEN post_save_send(i + 1, instance, created, acc)
    ELSE LET eff == post_save_user_types_handler(instance, created, acc.more)
         IN  post_save_send(i + 1, instance, created, [err |-> eff.err, more |-> eff.more, inserted |-> acc.inserted \cup eff.inserted, updated |-> acc.updated \cup eff.updated, looked |-> acc.looked \cup eff.looked, runs |-> acc.runs + 1])

\* Model.save(): INSERT for an instance without pk, UPDATE otherwise; then the
\* post_save signal; then the tracker takes its new snapshot. A failed INSERT
\* sends no signal.
Model_save(inst, users, more) ==
    IF inst.pk = 0 /\ UsernameTaken(users, inst.username)
    THEN Outcome("IntegrityError: username", users, more, inst, 0, "none", NoEffect(more))
    ELSE LET created == inst.pk = 0
             pk == IF created THEN NextPk(users) ELSE inst.pk
             saved == [inst EXCEPT !.pk = pk]
             users2 == [users EXCEPT ![pk] = RowOf(saved)]
             eff == post_save_send(1, saved, created, [err |-> "ok", more |-> more, inserted |-> {}, updated |-> {}, looked |-> {}, runs |-> 0])
         IN  IF eff.err # "ok"
             THEN Outcome(eff.err, users2, eff.more, saved, eff.runs, HandlerBranch(saved, created), eff)
             ELSE Outcome("ok", users2, eff.more, [saved EXCEPT !.prev = Snapshot(saved.types.items)], eff.runs, HandlerBranch(saved, created), eff)

\* A mutation of User_save: types is persisted as assigned, not normalized.
User_save_unnormalized(inst, users, more) == {Model_save(inst, users, more)}

\* User.save(): types is normalized, then Model.save() runs.
User_save(inst, users, more) == {Model_save([inst EXCEPT !.types = ListVal(nt)], users, more) : nt \in normalize_types(inst.types)}

\* Teacher.save(): TEACHER is added to an empty types; for a non-empty list or
\* set without TEACHER, set(...) + set(...) raises TypeError.
Teacher_save(inst, users, more) ==
    IF ~inst.types.truthy
    THEN User_save([inst EXCEPT !.types = ListVal(<<"TEACHER">>)], users, more)
    ELSE IF inst.types.kind \in {"list", "set"} /\ "TEACHER" \notin Range(inst.types.items)
    THEN {Outcome("TypeError", users, more, inst, 0, "none", NoEffect(more))}
    ELSE User_save(inst, users, more)

\* instance.save(), dispatched on the instance's class.
save(inst, users, more) == IF inst.cls = "Teacher" THEN Teacher_save(inst, users, more) ELSE User_save(inst, users, more)

\* --------------------------------------------------------------- managers
\* The values a keyword flag of create_superuser can be given.
FlagArgs == {"omitted", "True", "False", "1"}

\* A mutation of _create_user: the username is not checked.
create_user_unchecked(mgr, username, types, st, su, users, more) == save(NewInstance(ModelOf[mgr], username, types, st, su), users, more)

\* BaseCommonUserManager._create_user()
_create_user(mgr, username, types, st, su, users, more) ==
    IF username = ""
    THEN {Outcome("ValueError: username", users, more, NoInstance, 0, "none", NoEffect(more))}
    ELSE save(NewInstance(ModelOf[mgr], username, types, st, su), users, more)

\* BaseCommonUserManager.create_user(): is_staff and is_superuser default to False.
create_user(mgr, username, types, users, more) == _create_user(mgr, username, types, FALSE, FALSE, users, more)

\* A mutation of create_superuser: the flags are stored as given, unchecked.
create_superuser_unchecked(username, types, staff, super, users, more) == _create_user("UserManager", username, types, staff \in {"omitted", "True", "1"}, super \in {"omitted", "True", "1"}, users, more)

\* UserManager.create_superuser(): the flags default to True and must be True.
create_superuser(username, types, staff, super, users, more) ==
    LET is_staff == IF staff = "omitted" THEN "True" ELSE staff
        is_superuser == IF super = "omitted" THEN "True" ELSE super
    IN  IF is_staff # "True"
        THEN {Outcome("ValueError: is_staff", users, more, NoInstance, 0, "none", NoEffect(more))}
        ELSE IF is_superuser # "True"
        THEN {Outcome("ValueError: is_superuser", users, more, NoInstance, 0, "none", NoEffect(more))}
        ELSE _create_user("UserManager", username, types, TRUE, TRUE, users, more)

\* ---------------------------------------------------------------- actions
\* The values callers assign to `types` or pass as types=...: lists in and
\* out of order, with duplicates and with an unrecognized code, sets, None
\* (falsy) and a str (truthy).
TypeInputs == {ListVal(<<>>), ListVal(<<"STUDENT", "STUDENT", "TEACHER">>), ListVal(<<"TEACHER", Bogus>>), ListVal(<<"STAFF", "GUARDIAN", "COMMITTEE">>), SetVal(<<"GUARDIAN", "TEACHER">>), OtherVal(FALSE), OtherVal(TRUE)}

\* The usernames callers pass: the empty one and two others.
Usernames == {"", "alice", "bob"}

\* create_user calls: every value of types through User and Teacher; through
\* each other role view one call without types and one with; and the empty
\* username through every manager.
CreateRequests ==
    {<<mgr, u, t>> : mgr \in {"UserManager", "TeacherManager"}, u \in Usernames \ {""}, t \in TypeInputs}
    \cup {<<mgr, u, t>> : mgr \in Managers \ {"UserManager", "TeacherManager"}, u \in Usernames \ {""}, t \in {Omitted, ListVal(<<"STAFF", "GUARDIAN", "COMMITTEE">>)}}
    \cup {<<mgr, "", ListVal(<<"TEACHER", Bogus>>)>> : mgr \in Managers}

\* create_superuser calls: each flag given every value while the other is
\* omitted, both False, and the empty username.
SuperuserRequests ==
    {<<"alice", st, "omitted">> : st \in FlagArgs}
    \cup {<<"alice", "omitted", su>> : su \in FlagArgs}
    \cup {<<"alice", "False", "False">>, <<"bob", "omitted", "omitted">>, <<"", "omitted", "omitted">>}

NoLast == [op |-> "none", slot |-> "", cls |-> "none", pk |-> 0, err |-> "ok", arg |-> ListVal(<<>>), username |-> "", staff |-> "omitted", super |-> "omitted", handler |-> 0, branch |-> "none", inserted |-> {}, updated |-> {}, looked |-> {}, seen |-> ListVal(<<>>)]

\* The record of a call: its arguments and what it did.
LastOf(op, s, cls, arg, username, staff, super, o) == [op |-> op, slot |-> s, cls |-> cls, pk |-> o.inst.pk, err |-> o.err, arg |-> arg, username |-> username, staff |-> staff, super |-> super, handler |-> o.handler, branch |-> o.branch, inserted |-> o.inserted, updated |-> o.updated, looked |-> o.looked, seen |-> o.seen]

NormIdle == /\ nIn = OtherVal(FALSE)
            /\ nOut = <<>>
            /\ nOut2 = <<>>
            /\ nStep = 0

\* A worker's position inside a save() whose handler is taken step by step.
NoWork == [pc |-> "idle", todo |-> {}, added |-> {}, cur |-> "", rejected |-> FALSE, err |-> "ok"]

AppIdle == /\ worker = [s \in Slots |-> NoWork]
           /\ userTbl = [pk \in Pks |-> NoRow]
           /\ moreTbl = EmptyMore
           /\ obj = [s \in Slots |-> NoInstance]
           /\ nops = 0
           /\ last = NoLast

Init == AppIdle /\ NormIdle

\* The tables and the caller's slot after a manager call that returns an
\* instance (an exception returns none).
Created(s, o) ==
    /\ o.inst.pk <= MaxUsers
    /\ userTbl' = o.users
    /\ moreTbl' = o.more
    /\ obj' = IF o.err = "ok" THEN [obj EXCEPT ![s] = o.inst] ELSE obj
    /\ nops' = nops + 1
    /\ UNCHANGED <<nIn, nOut, nOut2, nStep, worker>>

\* <Model>.objects.create_user(username, types=types), kept in slot s
CreateUser(s, mgr, username, types) ==
    /\ nops < MaxOps
    /\ \E o \in create_user(mgr, username, types, userTbl, moreTbl) :
          /\ Created(s, o)
          /\ last' = LastOf("create_user", s, ModelOf[mgr], types, username, "omitted", "omitted", o)

\* User.objects.create_superuser(username, is_staff=..., is_superuser=..., types=types)
CreateSuperuser(s, username, types, staff, super) ==
    /\ nops < MaxOps
    /\ \E o \in create_superuser(username, types, staff, super, userTbl, moreTbl) :
          /\ Created(s, o)
          /\ last' = LastOf("create_superuser", s, "User", types, username, staff, super, o)

\* <Model>.objects.get(pk=pk) for the pk of a stored user, kept in slot s;
\* DoesNotExist when the manager's queryset does not hold the user
Get(s, mgr, pk) ==
    /\ nops < MaxOps
    /\ userTbl[pk].present
    /\ nops' = nops + 1
    /\ IF pk \in get_queryset(mgr, userTbl)
       THEN /\ obj' = [obj EXCEPT ![s] = FromDb(ModelOf[mgr], pk, userTbl[pk])]
            /\ last' = [NoLast EXCEPT !.op = "get", !.slot = s, !.cls = ModelOf[mgr], !.pk = pk]
       ELSE /\ obj' = obj
            /\ last' = [NoLast EXCEPT !.op = "get", !.slot = s, !.cls = ModelOf[mgr], !.pk = pk, !.err = "DoesNotExist"]
    /\ UNCHANGED <<userTbl, moreTbl, nIn, nOut, nOut2, nStep, worker>>

\* instance.save() on the instance inst of slot s
SaveCall(s, inst, op) ==
    /\ nops < MaxOps
    /\ inst.cls # "none"
    /\ \E o \in save(inst, userTbl, moreTbl) :
          /\ o.inst.pk <= MaxUsers
          /\ userTbl' = o.users
          /\ moreTbl' = o.more
          /\ obj' = [obj EXCEPT ![s] = o.inst]
          /\ last' = LastOf(op, s, inst.cls, inst.types, inst.username, "omitted", "omitted", o)
    /\ nops' = nops + 1
    /\ UNCHANGED <<nIn, nOut, nOut2, nStep, worker>>

\* instance.save() with the instance as it is
Save(s) == SaveCall(s, obj[s], "save")

\* instance.types = v; instance.save()
AssignAndSave(s, v) == SaveCall(s, [obj[s] EXCEPT !.types = v], "assign_save")

Next ==
    \/ \E q \in CreateRequests : CreateUser("a", q[1], q[2], q[3])
    \/ \E q \in SuperuserRequests : CreateSuperuser("a", q[1], ListVal(<<"TEACHER", Bogus>>), q[2], q[3])
    \/ \E mgr \in Managers, pk \in Pks : Get("b", mgr, pk)
    \/ \E s \in Slots : Save(s)
    \/ \E s \in Slots, v \in TypeInputs : AssignAndSave(s, v)

Spec == Init /\ [][Next]_vars

\* Someone deletes the extra-profile row of a role by hand (the handler never
\* does: rows of removed roles are left for manual handling).
DeleteMore(role, pk) ==
    /\ nops < MaxOps
    /\ moreTbl[role][pk] > 0
    /\ moreTbl' = [moreTbl EXCEPT ![role][pk] = 0]
    /\ nops' = nops + 1
    /\ last' = [NoLast EXCEPT !.op = "delete_more", !.pk = pk]
    /\ UNCHANGED <<userTbl, obj, nIn, nOut, nOut2, nStep, worker>>

NextExt ==
    \/ Next
    \/ \E role \in valid_types_set, pk \in Pks : DeleteMore(role, pk)

\* The application with extra-profile rows also deleted by hand.
SpecExt == Init /\ [][NextExt]_vars

\* ------------------------------------------- normalize_types on its own
Codes == valid_types_set \cup {Bogus}

SeqsUpTo(S, n) == UNION {[1..k -> S] : k \in 0..n}

\* Lists of up to NormMaxLen codes, sets of codes, and values that are neither.
NormInputs ==
    {ListVal(s) : s \in SeqsUpTo(Codes, NormMaxLen)}
    \cup {SetVal(s) : s \in {q \in SeqsUpTo(Codes, NormMaxLen) : \A i, j \in DOMAIN q : i < j => StrLess(q[i], q[j])}}
    \cup {OtherVal(b) : b \in BOOLEAN}

NormInit ==
    /\ AppIdle
    /\ nIn \in NormInputs
    /\ nOut = <<>>
    /\ nOut2 = <<>>
    /\ nStep = 0

\* normalize_types(nIn)
NormCall ==
    /\ nStep = 0
    /\ \E r \in normalize_types(nIn) : nOut' = r
    /\ nStep' = 1
    /\ UNCHANGED <<userTbl, moreTbl, obj, nops, last, nIn, nOut2, worker>>

\* normalize_types applied to the list the first call returned
NormAgain ==
    /\ nStep = 1
    /\ \E r \in normalize_types(ListVal(nOut)) : nOut2' = r
    /\ nStep' = 2
    /\ UNCHANGED <<userTbl, moreTbl, obj, nops, last, nIn, nOut, worker>>

NormNext == NormCall \/ NormAgain

SpecNorm == NormInit /\ [][NormNext]_vars

\* ------------------------------------------------ two concurrent saves
\* Two workers hold their own copy of user 1, loaded from the same row, and
\* each assigns a new types and saves. The handler's update_or_create calls
\* are taken statement by statement: a SELECT, then an INSERT when the SELECT
\* found no row, then a second SELECT when the INSERT was rejected. Each
\* statement is atomic in the database; the workers interleave between them.

\* The persisted types of the user when both workers load it.
RaceTypes == {<<>>, <<"STUDENT">>}

\* The values the workers assign before saving.
RaceInputs == {ListVal(<<"TEACHER">>), ListVal(<<"TEACHER", "GUARDIAN">>), ListVal(<<"STUDENT", "TEACHER">>)}

RaceInit ==
    /\ NormIdle
    /\ nops = 0
    /\ last = NoLast
    /\ worker = [s \in Slots |-> [NoWork EXCEPT !.pc = "loaded"]]
    /\ \E P \in RaceTypes :
          LET row == [present |-> TRUE, username |-> "alice", types |-> P, is_staff |-> FALSE, is_superuser |-> FALSE]
              users == [pk \in Pks |-> IF pk = 1 THEN row ELSE NoRow]
              views == {ModelOf[mgr] : mgr \in {m \in Managers : 1 \in get_queryset(m, users)}}
          IN  /\ userTbl = users
              /\ moreTbl = [r \in valid_types_set |-> [pk \in Pks |-> IF pk = 1 /\ r \in Range(P) THEN 1 ELSE 0]]
              /\ \E ca \in views, cb \in views : obj = [a |-> FromDb(ca, 1, row), b |-> FromDb(cb, 1, row)]

\* instance.types = v; instance.save() up to the handler's loop over
\* added_types_set: types is normalized, the user row is written, the handler
\* compares the instance with its own snapshot.
RaceSave(w, v) ==
    /\ worker[w].pc = "loaded"
    /\ \E nt \in normalize_types(v) :
          LET inst == [obj[w] EXCEPT !.types = ListVal(nt)]
              previous_types_set == Range(inst.prev.items)
              current_types_set == Range(nt)
              added_types_set == IF inst.prev.items # nt THEN current_types_set \ previous_types_set ELSE {}
          IN  /\ obj' = [obj EXCEPT ![w] = inst]
              /\ userTbl' = [userTbl EXCEPT ![inst.pk] = RowOf(inst)]
              /\ worker' = [worker EXCEPT ![w] = [NoWork EXCEPT !.pc = "loop", !.todo = added_types_set, !.added = added_types_set]]
    /\ UNCHANGED <<moreTbl, nops, last, nIn, nOut, nOut2, nStep>>

\* update_or_create, first statement: the SELECT for the row of the next
\* added role. A row that exists is saved again and the loop goes on; with no
\* row the worker goes on to the INSERT.
RaceSelect(w) ==
    /\ worker[w].pc = "loop"
    /\ \E role \in worker[w].todo \cap DOMAIN moreTbl :
          IF MoreGet(moreTbl, role, obj[w].pk) # "ok"
          THEN worker' = [worker EXCEPT ![w].pc = "failed", ![w].cur = role, ![w].err = MoreGet(moreTbl, role, obj[w].pk)]
          ELSE IF moreTbl[role][obj[w].pk] = 1
          THEN worker' = [worker EXCEPT ![w].todo = @ \ {role}]
          ELSE worker' = [worker EXCEPT ![w].pc = "create", ![w].cur = role]
    /\ UNCHANGED <<userTbl, moreTbl, obj, nops, last, nIn, nOut, nOut2, nStep>>

\* update_or_create, second statement: the INSERT. The unique user_id
\* rejects it when the other worker's row is there by now; update_or_create
\* catches the IntegrityError and goes on to fetch the row.
RaceInsert(w) ==
    /\ worker[w].pc = "create"
    /\ LET res == MoreCreate(moreTbl, worker[w].cur, obj[w].pk)
       IN  /\ moreTbl' = res.more
           /\ IF res.err = "ok"
              THEN worker' = [worker EXCEPT ![w].pc = "loop", ![w].todo = @ \ {worker[w].cur}]
              ELSE worker' = [worker EXCEPT ![w].pc = "reget", ![w].rejected = TRUE]
    /\ UNCHANGED <<userTbl, obj, nops, last, nIn, nOut, nOut2, nStep>>

\* update_or_create after a rejected INSERT: the row is fetched and saved
\* again; the IntegrityError is raised again when there is still no row.
RaceReget(w) ==
    /\ worker[w].pc = "reget"
    /\ IF moreTbl[worker[w].cur][obj[w].pk] = 1
       THEN worker' = [worker EXCEPT ![w].pc = "loop", ![w].todo = @ \ {worker[w].cur}]
       ELSE worker' = [worker EXCEPT ![w].pc = "failed", ![w].err = "IntegrityError: user_id"]
    /\ UNCHANGED <<userTbl, moreTbl, obj, nops, last, nIn, nOut, nOut2, nStep>>

\* The loop over added_types_set is over: the loop over removed_types_set
\* only reads, save() returns and the tracker takes its new snapshot.
RaceReturn(w) ==
    /\ worker[w].pc = "loop"
    /\ worker[w].todo \cap DOMAIN moreTbl = {}
    /\ worker' = [worker EXCEPT ![w].pc = "done"]
    /\ obj' = [obj EXCEPT ![w].prev = Snapshot(obj[w].types.items)]
    /\ UNCHANGED <<userTbl, moreTbl, nops, last, nIn, nOut, nOut2, nStep>>

RaceNext ==
    \/ \E w \in Slots, v \in RaceInputs : RaceSave(w, v)
    \/ \E w \in Slots : RaceSelect(w)
    \/ \E w \in Slots : RaceInsert(w)
    \/ \E w \in Slots : RaceReget(w)
    \/ \E w \in Slots : RaceReturn(w)

SpecRace == RaceInit /\ [][RaceNext]_vars

\* ------------------------------------------------------------------ claims
\* The recognized role codes.
RoleCodes == {TypesChoices[i][1] : i \in DOMAIN TypesChoices}

\* Sorted ascending without duplicates, recognized codes only.
IsNormalized(l) ==
    /\ Range(l) \subseteq RoleCodes
    /\ \A i, j \in DOMAIN l : i < j => StrLess(l[i], l[j])

\* The recognized roles a value of types names.
RolesIn(v) == IF v.kind \in {"list", "set"} THEN Range(v.items) \cap RoleCodes ELSE {}

IsSave(l) == l.op \in {"save", "assign_save"}
IsCreate(l) == l.op \in {"create_user", "create_superuser"}

\* C1: every role code in a user's persisted types has an extra-profile row
\* of that role linked to that user, after any sequence of creations and saves.
C1_TypesHaveRows ==
    \A pk \in Pks : userTbl[pk].present =>
        \A r \in Range(userTbl[pk].types) : r \in DOMAIN moreTbl /\ moreTbl[r][pk] >= 1

\* A save through a role view added a role to an existing user and the
\* handler inserted its row.
C1_Witness ==
    /\ last.op = "assign_save" /\ last.err = "ok"
    /\ last.cls \notin {"User", "none"}
    /\ last.branch = "changed" /\ last.inserted # {}
    /\ last.inserted \subseteq Range(userTbl[last.pk].types)

\* C2: at most one extra-profile row per (role, user), and no call ends in a
\* duplicate-key error on an extra-profile table (nor finds two rows).
C2_OneRowPerRoleAndUser ==
    /\ \A r \in RoleCodes, pk \in Pks : moreTbl[r][pk] <= 1
    /\ last.err \notin {"IntegrityError: user_id", "MultipleObjectsReturned"}

\* A role was added again while its row from an earlier time existed: the
\* upsert found the row.
C2_Witness ==
    /\ IsSave(last) /\ last.err = "ok"
    /\ last.updated # {}
    /\ \A r \in last.updated : moreTbl[r][last.pk] = 1 /\ r \in Range(userTbl[last.pk].types)

\* C3: the persisted types of every user, and the types the handler observed
\* in the latest save, hold recognized codes only, ascending, without duplicates.
C3_PersistedTypesNormalized ==
    /\ \A pk \in Pks : userTbl[pk].present => IsNormalized(userTbl[pk].types)
    /\ last.handler = 1 => last.seen.kind = "list" /\ IsNormalized(last.seen.items)

\* A save succeeded after a list that is not in normal form was assigned.
C3_Witness ==
    /\ last.op = "assign_save" /\ last.err = "ok" /\ last.handler = 1
    /\ last.arg.kind = "list" /\ ~IsNormalized(last.arg.items)
    /\ userTbl[last.pk].types # <<>>

\* The rows a creation is to leave for the new user: one for each role in
\* `want`, none for any other role.
RowsAre(pk, want) == \A r \in RoleCodes : moreTbl[r][pk] = IF r \in want THEN 1 ELSE 0

\* C4 as stated: right after a creation with types T, the new user has
\* exactly one extra-profile row for each role of T and none for any other
\* role (none at all when T is empty).
C4_RowsOfCreationAsStated == (IsCreate(last) /\ last.err = "ok") => RowsAre(last.pk, RolesIn(last.arg))

\* C4 as amended: the same, where creation through the Teacher view with an
\* empty (falsy) T counts as creation with [TEACHER].
C4_RowsOfCreation ==
    (IsCreate(last) /\ last.err = "ok") =>
        /\ RowsAre(last.pk, IF last.cls = "Teacher" /\ ~last.arg.truthy THEN {"TEACHER"} ELSE RolesIn(last.arg))
        /\ Range(userTbl[last.pk].types) = {r \in RoleCodes : moreTbl[r][last.pk] = 1}

\* A user was created with a list naming two roles, one of them twice.
C4_Witness ==
    /\ last.op = "create_user" /\ last.err = "ok"
    /\ last.arg = ListVal(<<"STUDENT", "STUDENT", "TEACHER">>)
    /\ moreTbl["TEACHER"][last.pk] = 1 /\ moreTbl["STUDENT"][last.pk] = 1

\* C5: a successful save of an existing user whose persisted types go from P
\* to C inserts one row for each role of C \ P that had none and no other row
\* (of this or any user); a save that leaves the persisted types as they were
\* inserts nothing, and a save of an instance whose types equal what it last
\* loaded or saved writes no extra-profile row at all.
C5_SaveCreatesAddedOnly ==
    [][(IsSave(last') /\ last'.err = "ok") =>
        LET pk == last'.pk
            P == Range(userTbl[pk].types)
            C == Range(userTbl'[pk].types)
        IN  /\ \A r \in RoleCodes, k \in Pks : moreTbl'[r][k] = moreTbl[r][k] + (IF k = pk /\ r \in C \ P /\ moreTbl[r][k] = 0 THEN 1 ELSE 0)
            /\ C = P => last'.inserted = {}
            /\ (obj[last'.slot].prev.has /\ obj[last'.slot].prev.items = userTbl'[pk].types) => (moreTbl' = moreTbl /\ last'.inserted = {} /\ last'.updated = {})]_vars

\* A save added a role to a user who kept another role: the one row is new,
\* the other was there before.
C5_Witness ==
    /\ last.op = "assign_save" /\ last.err = "ok"
    /\ Cardinality(last.inserted) = 1
    /\ \E r \in Range(userTbl[last.pk].types) \ last.inserted : moreTbl[r][last.pk] = 1

C7_NormalizeResult ==
    (nStep >= 1 /\ nIn.kind \in {"list", "set"}) =>
        /\ \A i, j \in DOMAIN nOut : i < j => StrLess(nOut[i], nOut[j])
        /\ Range(nOut) = {c \in Range(nIn.items) : c \in RoleCodes}

\* normalize_types was applied to a list with a duplicate, an unrecognized
\* code and two recognized codes out of order.
C7_Witness ==
    /\ nStep >= 1 /\ nIn = ListVal(<<"TEACHER", Bogus, "STUDENT", "STUDENT">>)
    /\ nOut = <<"STUDENT", "TEACHER">>

\* C8: normalize_types applied to its own result returns that result, for
\* lists, sets and values that are neither.
C8_NormalizeIdempotent == nStep = 2 => nOut2 = nOut

\* normalize_types was applied twice, starting from a set of three recognized codes.
C8_Witness ==
    /\ nStep = 2 /\ nIn.kind = "set" /\ Len(nOut) = 3 /\ Len(nIn.items) = 3

ValueErrors == {"ValueError: username", "ValueError: is_staff", "ValueError: is_superuser"}

\* C9: create_superuser with is_staff or is_superuser given and not True ends
\* in an error and leaves the user table and the extra-profile tables as they
\* were; with both flags omitted and a username that is set and free, the
\* user is created with both flags True.
C9_SuperuserFlags ==
    [][last'.op = "create_superuser" =>
        /\ (last'.staff \notin {"omitted", "True"} \/ last'.super \notin {"omitted", "True"}) =>
              (last'.err \in ValueErrors /\ userTbl' = userTbl /\ moreTbl' = moreTbl /\ last'.handler = 0)
        /\ (last'.staff = "omitted" /\ last'.super = "omitted" /\ last'.username # "" /\ ~UsernameTaken(userTbl, last'.username)) =>
              (last'.err = "ok" /\ last'.pk \in Pks /\ ~userTbl[last'.pk].present /\ userTbl'[last'.pk].present /\ userTbl'[last'.pk].is_staff /\ userTbl'[last'.pk].is_superuser)]_vars

\* create_superuser was called with is_staff=1 (truthy, not True) on a
\* database that holds a user, and failed.
C9_Witness ==
    /\ last.op = "create_superuser" /\ last.staff = "1" /\ last.err = "ValueError: is_staff"
    /\ \E pk \in Pks : userTbl[pk].present

\* C10: create_user or create_superuser with an empty username, through any
\* manager, ends in an error: no user row and no extra-profile row is
\* written, the handler does not run and no instance is returned.
C10_EmptyUsername ==
    [][(IsCreate(last') /\ last'.username = "") =>
        /\ last'.err \in ValueErrors
        /\ userTbl' = userTbl /\ moreTbl' = moreTbl
        /\ last'.handler = 0 /\ last'.inserted = {} /\ last'.updated = {}
        /\ obj' = obj]_vars

\* create_user was called with an empty username through a role view's manager.
C10_Witness ==
    /\ last.op = "create_user" /\ last.username = "" /\ last.cls = "Student"
    /\ last.err = "ValueError: username"

\* C11: the handler runs exactly once for each successful save of a user
\* record, through User or through any of the role views, and never for a
\* save that failed.
C11_HandlerOncePerSave == (IsSave(last) \/ IsCreate(last)) => last.handler = (IF last.err = "ok" THEN 1 ELSE 0)

\* A record loaded through a role view was saved and the handler ran for it.
C11_Witness == IsSave(last) /\ last.cls \in {"Student", "Guardian", "Committee", "Staff"} /\ last.err = "ok" /\ last.handler = 1 /\ last.branch = "changed"

\* C13: a save through the Teacher view adds TEACHER for every value of types
\* the instance holds: an empty types is persisted as [TEACHER]; for a
\* non-empty list or set without TEACHER the save succeeds and persists the
\* roles it held plus TEACHER; in both cases the user has its TeacherMore row
\* afterwards.
C13_TeacherSaveAddsTeacher ==
    (IsSave(last) /\ last.cls = "Teacher" /\ (~last.arg.truthy \/ (last.arg.kind \in {"list", "set"} /\ "TEACHER" \notin Range(last.arg.items)))) =>
        /\ last.err = "ok"
        /\ Range(userTbl[last.pk].types) = RolesIn(last.arg) \cup {"TEACHER"}
        /\ moreTbl["TEACHER"][last.pk] = 1

\* A record held through the Teacher view with a non-empty list without
\* TEACHER was saved: the save raised TypeError and the handler did not run.
C13_Witness == IsSave(last) /\ last.cls = "Teacher" /\ last.arg = ListVal(<<"STAFF", "GUARDIAN", "COMMITTEE">>) /\ last.err = "TypeError" /\ last.handler = 0 /\ "STAFF" \notin Range(userTbl[last.pk].types)

\* C14: a record created through Student, Guardian, Committee or Staff (the
\* views that declare a class-level `types`) without explicit types is tagged
\* with the view's role: its persisted types contain the role, the role's
\* extra-profile row is created, and the view's filtered query returns it.
C14_RoleViewAutoTags ==
    (last.op = "create_user" /\ last.cls \in DOMAIN ClassTypes /\ last.arg = Omitted /\ last.err = "ok") =>
        \A i \in DOMAIN ClassTypes[last.cls] :
            /\ ClassTypes[last.cls][i] \in Range(userTbl[last.pk].types)
            /\ moreTbl[ClassTypes[last.cls][i]][last.pk] = 1
            /\ \E mgr \in Managers : ModelOf[mgr] = last.cls /\ last.pk \in get_queryset(mgr, userTbl)

\* A record was created through the Student view without types: it is stored
\* with no role, has no StudentMore row and the Student query does not hold it.
C14_Witness == last.op = "create_user" /\ last.cls = "Student" /\ last.arg = Omitted /\ last.err = "ok" /\ userTbl[last.pk].types = <<>> /\ moreTbl["STUDENT"][last.pk] = 0 /\ last.pk \notin get_queryset("StudentManager", userTbl)

\* C12: under every interleaving of two workers that each hold their own
\* loaded copy of the same user and save it with the same role added, the
\* unique user_id rejects the duplicate create that races: there are never two
\* extra-profile rows for a (role, user) pair, and once a worker's save has
\* returned there is exactly one row for each role it added.
C12_OneRowUnderRace ==
    /\ \A role \in DOMAIN moreTbl, pk \in Pks : moreTbl[role][pk] <= 1
    /\ \A w \in Slots : worker[w].pc = "done" => \A role \in worker[w].added : moreTbl[role][obj[w].pk] = 1

\* Both saves have returned, both added TEACHER, and one worker's INSERT
\* was rejected by the unique constraint.
C12_Witness == (\A w \in Slots : worker[w].pc = "done" /\ "TEACHER" \in worker[w].added) /\ (\E w \in Slots : worker[w].rejected) /\ moreTbl["TEACHER"][1] = 1

====
